---- MODULE Spec2Model ----
(***************************************************************************)
(* PyOnSSET, pyonsset/tables.py and pyonsset/constants.py: the LCOE cost   *)
(* model (calc_lcoe), the technology portfolio (get_lcoes) and the table   *)
(* generator with its grid-viability scan (make_tables).                   *)
(*                                                                         *)
(* Numbers.  The program computes in IEEE doubles; the model computes in   *)
(* fixed point on integers, rounding down, with these units:               *)
(*   ratios and prices   parts per million (ppm; USD/kWh * 10^6)           *)
(*   loads               W                                                 *)
(*   lengths             m                                                 *)
(*   money               USD                                               *)
(*   energy              kWh                                               *)
(*   LCOE                micro-USD per kWh                                 *)
(* Every operation used (MulDiv, ISqrt, sum, product) is monotone on       *)
(* non-negative arguments, as the corresponding double operation is.       *)
(***************************************************************************)
EXTENDS Integers, Sequences, FiniteSets, TLC

(***************************************************************************)
(* Fixed-point helpers                                                     *)
(***************************************************************************)
Kilo == 10^3
Mega == 10^6

\* The helpers are functions behind operators: an operator names each of its
\* arguments once.
MinOf[a \in Int, b \in Int] == IF a <= b THEN a ELSE b
Min(a, b) == MinOf[a, b]

MaxOf[a \in Int, b \in Int] == IF a >= b THEN a ELSE b
Max(a, b) == MaxOf[a, b]

\* math.ceil(a / b) for a >= 0, b > 0
CeilDivOf[a \in Int, b \in Int] == (a + b - 1) \div b
CeilDiv(a, b) == CeilDivOf[a, b]

\* round(a / b) for a >= 0, b > 0
RoundDivOf[a \in Int, b \in Int] == (2 * a + b) \div (2 * b)
RoundDiv(a, b) == RoundDivOf[a, b]

\* <<q, r>> with a * b = q * c + r and 0 <= r < c, without forming a * b
\* (a, b >= 0, 0 < c < 2^30): long multiplication on the digits of b, in base 16
\* or 2 so that base * c fits 31 bits.
MulDivQR[a \in Int, b \in Int, c \in Int] ==
    IF b = 0 THEN <<0, 0>>
    ELSE LET base == IF c < 2^27 THEN 16 ELSE 2
             h  == MulDivQR[a, b \div base, c]
             t1 == base * h[2]
             t2 == (b % base) * (a % c)
             r  == (t1 % c) + (t2 % c)
             q  == base * h[1] + (t1 \div c) + (b % base) * (a \div c) + (t2 \div c)
         IN  IF r >= c THEN <<q + 1, r - c>> ELSE <<q, r>>

\* floor(a * b / c)
MulDivOf[a \in Int, b \in Int, c \in Int] ==
    IF a = 0 \/ b <= 2147483647 \div a THEN (a * b) \div c
    ELSE IF b <= a THEN MulDivQR[a, b, c][1] ELSE MulDivQR[b, a, c][1]
MulDiv(a, b, c) == MulDivOf[a, b, c]

\* floor(sqrt(n)) by bisection on lo..hi
ISqrtIn[n \in Int, lo \in Int, hi \in Int] ==
    IF lo >= hi THEN lo
    ELSE LET mid == (lo + hi + 1) \div 2
         IN  IF mid * mid <= n THEN ISqrtIn[n, mid, hi] ELSE ISqrtIn[n, lo, mid - 1]

ISqrt(n) == ISqrtIn[n, 0, 46340]

\* math.sqrt(n / d) in ppm (n >= 0, d > 0, n / d < 2000): four significant
\* digits or more
SqrtPpmOf[n \in Int, d \in Int] ==
    IF n < 21 * d THEN ISqrt(MulDiv(n, 10^8, d)) * 100
    ELSE ISqrt((n * Mega) \div d) * Kilo
SqrtPpm(n, d) == SqrtPpmOf[n, d]

\* (1 + rate) ** k in ppm, for an integer k >= 0 and a rate in ppm
PowPpmOf[rate \in Int, k \in Int] ==
    IF k = 0 THEN Mega
    ELSE IF k = 1 THEN Mega + rate
    ELSE MulDiv(PowPpmOf[rate, k \div 2], PowPpmOf[rate, k - (k \div 2)], Mega)
PowPpm(rate, k) == PowPpmOf[rate, k]

(***************************************************************************)
(* constants.py                                                            *)
(***************************************************************************)
ELEC_DISTANCES == [x \in 1..10 |-> 5 * x]
NUM_PEOPLE_PER_HH == 5
\* 9.9445485 kWh/l, in ppm
LHV_DIESEL == 9944548
HOURS_PER_YEAR == 8760

GRID == "grid"
MG_HYDRO == "mg_hydro"
MG_PV_LOW == "mg_pv1750"
MG_PV_HIGH == "mg_pv2250"
MG_WIND_LOW == "mg_wind0.2"
MG_WIND_MID == "mg_wind0.3"
MG_WIND_HIGH == "mg_wind0.4"
MG_DIESEL == "mg_diesel"
SA_DIESEL == "sa_diesel"
SA_PV_LOW == "sa_pv1750"
SA_PV_HIGH == "sa_pv2250"

\* str(x) of a non-negative int: its decimal digits
RECURSIVE Str(_)
Str(x) ==
    LET digit == <<"0", "1", "2", "3", "4", "5", "6", "7", "8", "9">>[(x % 10) + 1]
    IN  IF x < 10 THEN digit ELSE Str(x \div 10) \o digit

\* os.path.join of relative components
PathJoin(parts) ==
    LET RECURSIVE Join(_)
        Join(n) == IF n = 1 THEN parts[1] ELSE Join(n - 1) \o "/" \o parts[n]
    IN  Join(Len(parts))

\* files and folders
FF_TABLES == "db"
FF_LCOES == PathJoin(<<FF_TABLES, "lcoes">>)
FF_SPECS == PathJoin(<<FF_TABLES, "specs.xlsx">>)
FF_GRID_LCOES(x) == PathJoin(<<FF_LCOES, Str(x), "grid_lcoes_" \o Str(x) \o ".csv">>)
FF_GRID_CAP(x) == PathJoin(<<FF_LCOES, Str(x), "grid_cap_" \o Str(x) \o ".csv">>)
FF_TECH_LCOES(x) == PathJoin(<<FF_LCOES, Str(x), "tech_lcoes_" \o Str(x) \o ".csv">>)
FF_TECH_CAP(x) == PathJoin(<<FF_LCOES, Str(x), "tech_cap_" \o Str(x) \o ".csv">>)
\* A path that does not hold the scenario value
FF_NUM_PEOPLE_shared(x) == PathJoin(<<FF_LCOES, "num_people.csv">>)

FF_NUM_PEOPLE(x) == PathJoin(<<FF_LCOES, Str(x), "num_people_" \o Str(x) \o ".csv">>)

(***************************************************************************)
(* calc_lcoe: the constants of its body                                    *)
(***************************************************************************)
grid_cell_area == 100
\* USD/km
mv_line_cost == 9000
\* USD/km
lv_line_cost == 5000
\* 0.08, in ppm
discount_rate == 80000
\* kW/line
mv_line_capacity == 50
\* kW/line
lv_line_capacity == 10
\* km
lv_line_max_length == 30
\* USD/km
hv_line_cost == 53000
\* km
mv_line_max_length == 50
\* USD/unit
hv_lv_transformer_cost == 5000
\* 0.1, in ppm
mv_increase_rate == 100000

\* The default values of calc_lcoe's keyword parameters.
calc_lcoe_defaults ==
    [mv_line_length |-> 0, om_costs |-> 0, capital_cost |-> 0, capacity_factor |-> Mega,
     efficiency |-> Mega, diesel_price |-> 0, additional_mv_line_length |-> 0,
     grid_price |-> 0, grid |-> FALSE, diesel |-> FALSE, standalone |-> FALSE]

\* discount_factor = (1 + discount_rate) ** year, in ppm
discount_factor == [year \in 0..30 |-> PowPpm(discount_rate, year)]

\* np.sum((1 / discount_factor)[1:]) for each system_life, in ppm. With
\* x[0] = 0 and x[year] = amount for every year in 1..system_life,
\* np.sum(x / discount_factor) = amount * sum_discount[system_life].
sum_discount ==
    LET RECURSIVE Sum(_)
        Sum(year) == IF year = 0 THEN 0
                     ELSE Sum(year - 1) + MulDiv(Mega, Mega, discount_factor[year])
    IN  [system_life \in 0..30 |-> Sum(system_life)]

\* calc_lcoe, lines 340-342 and 359: the demand of the cell.
\* a holds the arguments of the call.
calc_loads(a) ==
    LET people_in_cell == a.people * grid_cell_area
        households == people_in_cell \div NUM_PEOPLE_PER_HH
        consumption == households * a.scenario
        average_load == MulDiv(consumption, Mega + a.distribution_losses, HOURS_PER_YEAR * Kilo)
    IN  [households |-> households,
         average_load |-> average_load,
         peak_load |-> IF a.base_to_peak_load_ratio = 0 THEN 0
                       ELSE MulDiv(average_load, Mega, a.base_to_peak_load_ratio),
         generation_per_year |-> MulDiv(average_load, HOURS_PER_YEAR, Kilo),
         raised |-> IF a.base_to_peak_load_ratio = 0 THEN "ZeroDivisionError" ELSE "none"]

\* The quotient rounded down
no_mv_lines_of_floor(peak_load) == peak_load \div (mv_line_capacity * Kilo)

\* ceil(peak_load / mv_line_capacity), peak_load in W
no_mv_lines_of(peak_load) == CeilDiv(peak_load, mv_line_capacity * Kilo)

\* ceil(min([households, max([lv_networks_lim_capacity, lv_networks_lim_length])])),
\* the two limits in thousandths
actual_lv_lines_of(households, no_mv_lines, no_lv_lines) ==
    LET lv_networks_lim_capacity == (no_lv_lines * Kilo) \div no_mv_lines
        x == (grid_cell_area * Kilo) \div no_mv_lines
        y == MulDiv(lv_line_max_length * Kilo, Mega, SqrtPpm(2, 1))
        q == (x * Kilo) \div y
        lv_networks_lim_length == MulDiv(q, q, Kilo)
    IN  CeilDiv(Min(households * Kilo,
                    Max(lv_networks_lim_capacity, lv_networks_lim_length)), Kilo)

\* total_lv_lines_length, in m
total_lv_lines_length_of(households, no_mv_lines, actual_lv_lines) ==
    LET \* in thousandths
        hh_per_lv_network == (households * Kilo) \div (actual_lv_lines * no_mv_lines)
        \* in mm
        lv_unit_length == MulDiv(SqrtPpm(grid_cell_area, households), SqrtPpm(2, 1), 2 * Mega)
        \* in mm
        lv_lines_length_per_lv_network ==
            MulDiv(MulDiv(1333, hh_per_lv_network, Kilo), lv_unit_length, Kilo)
    IN  MulDiv(no_mv_lines * actual_lv_lines, lv_lines_length_per_lv_network, Kilo)

\* min([line_reach, mv_line_max_length]), in m
reach_of(no_mv_lines, no_lv_lines) ==
    LET line_reach ==
            MulDiv((grid_cell_area * Kilo) \div no_mv_lines, Mega,
                   2 * SqrtPpm(grid_cell_area, no_lv_lines))
    IN  Min(line_reach, mv_line_max_length * Kilo)

\* additional_hv_lines, in thousandths (round(..., 3))
additional_hv_lines_of(reach) ==
    Max(0, RoundDiv(ISqrt(grid_cell_area) * Mega, 2 * reach * 10) - Kilo)

\* calc_lcoe, lines 344-358: the lines and transformers of the cell, given its
\* households and its peak load.
calc_network(households, peak_load) ==
    LET no_mv_lines == no_mv_lines_of(peak_load)
        no_lv_lines == CeilDiv(peak_load, lv_line_capacity * Kilo)
    IN  IF no_mv_lines = 0 \/ no_lv_lines = 0 \/ households = 0
        THEN [raised |-> "ZeroDivisionError"]
        ELSE LET actual_lv_lines == actual_lv_lines_of(households, no_mv_lines, no_lv_lines)
                 reach == reach_of(no_mv_lines, no_lv_lines)
             IN  IF actual_lv_lines * no_mv_lines = 0 \/ reach = 0
                 THEN [raised |-> "ZeroDivisionError"]
                 ELSE LET additional_hv_lines == additional_hv_lines_of(reach)
                      IN  [raised |-> "none",
                           total_lv_lines_length |->
                               total_lv_lines_length_of(households, no_mv_lines, actual_lv_lines),
                           total_length_of_lines |-> reach * no_mv_lines,
                           hv_lines_total_length |->
                               (ISqrt(grid_cell_area) * additional_hv_lines *
                                ISqrt(grid_cell_area)) \div 2,
                           num_transformers |->
                               CeilDiv(additional_hv_lines +
                                       (no_mv_lines + no_mv_lines * actual_lv_lines) * Kilo,
                                       Kilo)]

\* An extension whose cost per km falls by 10% of the first km at each step
extension_cost_falling(added_mv_length) ==
    added_mv_length * MulDiv(mv_line_cost, 11 - (added_mv_length \div 5), 10)

\* additional_mv_line_length * (mv_line_cost * (1 + mv_increase_rate) **
\*                              ((additional_mv_line_length / 5) - 1))
extension_cost(added_mv_length) ==
    added_mv_length *
        MulDiv(mv_line_cost, PowPpm(mv_increase_rate, (added_mv_length \div 5) - 1), Mega)

\* calc_lcoe, lines 362-372: the investment and O&M costs of the grid, in USD
grid_costs(a, households, n) ==
    LET td_investment_cost ==
            MulDiv(n.hv_lines_total_length, hv_line_cost, Kilo) +
            MulDiv(n.total_length_of_lines, mv_line_cost, Kilo) +
            MulDiv(n.total_lv_lines_length, lv_line_cost, Kilo) +
            n.num_transformers * hv_lv_transformer_cost +
            households * a.connection_cost_per_hh +
            extension_cost(a.additional_mv_line_length)
        td_om_cost == MulDiv(td_investment_cost, a.om_of_td_lines, Mega)
    IN  [total_investment_cost |-> td_investment_cost, total_om_cost |-> td_om_cost]

\* The costs of a non-grid technology without the connection cost of the
\* households
tech_costs_without_connection(a, households, peak_load, n) ==
    LET total_lv_lines_length ==
            IF a.standalone THEN 0 ELSE MulDiv(n.total_lv_lines_length, 750, Kilo)
        td_investment_cost ==
            mv_line_cost * a.mv_line_length +
            MulDiv(lv_line_cost, total_lv_lines_length, Kilo)
        capital_investment ==
            MulDiv(MulDiv(peak_load, Mega, a.capacity_factor), a.capital_cost, Kilo)
    IN  [total_investment_cost |-> td_investment_cost + capital_investment,
         total_om_cost |-> MulDiv(td_investment_cost, a.om_of_td_lines, Mega) +
                           MulDiv(capital_investment, a.om_costs, Mega)]

\* calc_lcoe, lines 374-384: the investment and O&M costs of a non-grid
\* technology, in USD
tech_costs(a, households, peak_load, n) ==
    LET total_lv_lines_length ==
            IF a.standalone THEN 0 ELSE MulDiv(n.total_lv_lines_length, 750, Kilo)
        mv_total_line_cost == mv_line_cost * a.mv_line_length
        lv_total_line_cost == MulDiv(lv_line_cost, total_lv_lines_length, Kilo)
        installed_capacity == MulDiv(peak_load, Mega, a.capacity_factor)
        capital_investment == MulDiv(installed_capacity, a.capital_cost, Kilo)
        td_investment_cost ==
            mv_total_line_cost + lv_total_line_cost + households * a.connection_cost_per_hh
        td_om_cost == MulDiv(td_investment_cost, a.om_of_td_lines, Mega)
    IN  [total_investment_cost |-> td_investment_cost + capital_investment,
         total_om_cost |-> td_om_cost + MulDiv(capital_investment, a.om_costs, Mega)]

\* calc_lcoe, lines 386-408: the fuel cost and the time value LCOE calculation
discounted_lcoe(a, generation_per_year, c) ==
    LET \* in ppm
        fuel_cost ==
            IF a.diesel THEN MulDiv(a.diesel_price, Mega, a.efficiency)
            ELSE IF a.grid THEN a.grid_price
            ELSE 0
        ft == MulDiv(generation_per_year, fuel_cost, Mega)
        discounted_costs ==
            c.total_investment_cost +
            MulDiv(c.total_om_cost + ft, sum_discount[a.system_life], Mega)
        discounted_generation == MulDiv(generation_per_year, sum_discount[a.system_life], Mega)
    IN  IF discounted_generation = 0 THEN [raised |-> "none", finite |-> FALSE, lcoe |-> 0]
        ELSE [raised |-> "none", finite |-> TRUE,
              lcoe |-> MulDiv(discounted_costs, Mega, discounted_generation)]

\* The result of a call that raises
Raise(e) == [raised |-> e, finite |-> FALSE, lcoe |-> 0]

\* The LCOE once the network n is sized for the loads l
lcoe_of_network(a, l, n) ==
    IF n.raised # "none" THEN Raise(n.raised)
    ELSE IF ~a.grid /\ a.capacity_factor = 0 THEN Raise("ZeroDivisionError")
    ELSE IF a.diesel /\ a.efficiency = 0 THEN Raise("ZeroDivisionError")
    ELSE discounted_lcoe(a, l.generation_per_year,
                         IF a.grid THEN grid_costs(a, l.households, n)
                         ELSE tech_costs(a, l.households, l.peak_load, n))

\* The LCOE once the loads l are known
lcoe_of_loads(a, l) ==
    IF l.raised # "none" THEN Raise(l.raised)
    ELSE lcoe_of_network(a, l, calc_network(l.households, l.peak_load))

\* Calculate the LCOE for a single technology with a single people/distance pair.
\* a holds the arguments of the call (all >= 0); the result records the exception
\* raised, if any, whether the quotient is finite, and the LCOE.
calc_lcoe_with(a) == lcoe_of_loads(a, calc_loads(a))

\* calc_lcoe with the keyword arguments kw of the call, the others at their defaults
calc_lcoe(kw) == calc_lcoe_with(kw @@ calc_lcoe_defaults)

(***************************************************************************)
(* get_lcoes                                                               *)
(***************************************************************************)
\* techs must be modified if any new technologies are added
techs == <<MG_HYDRO, MG_PV_LOW, MG_PV_HIGH, MG_WIND_LOW, MG_WIND_MID,
           MG_WIND_HIGH, MG_DIESEL, SA_DIESEL, SA_PV_LOW, SA_PV_HIGH>>

TechSet == {techs[i] : i \in DOMAIN techs}

\* The values zeroed for the full costs and not for the capital costs
lcoe_inputs_swapped(country_specs, calc_cap_only) ==
    IF ~calc_cap_only
    THEN [om_of_td_lines |-> 0, grid_price |-> 0, diesel_price |-> 0,
          om_renewable |-> 0, om_diesel |-> 0]
    ELSE [om_of_td_lines |-> 30000,
          grid_price |-> country_specs.GridPrice,
          diesel_price |-> MulDiv(country_specs.DieselPriceLow, Mega, LHV_DIESEL),
          om_renewable |-> 20000, om_diesel |-> 100000]

\* The values get_lcoes reads from the country row and zeroes when only the
\* capital costs are calculated: all O&M and fuel costs are excluded then.
lcoe_inputs(country_specs, calc_cap_only) ==
    IF calc_cap_only
    THEN [om_of_td_lines |-> 0, grid_price |-> 0, diesel_price |-> 0,
          om_renewable |-> 0, om_diesel |-> 0]
    ELSE [om_of_td_lines |-> 30000,
          grid_price |-> country_specs.GridPrice,
          \* to convert from USD/L to USD/kWh
          diesel_price |-> MulDiv(country_specs.DieselPriceLow, Mega, LHV_DIESEL),
          om_renewable |-> 20000, om_diesel |-> 100000]

\* The keyword arguments of the calc_lcoe call of the grid at one distance,
\* with in the values of lcoe_inputs.
grid_call(country_specs, people_per_km2, scenario_value, in, added_mv_length) ==
    [people |-> people_per_km2, scenario |-> scenario_value,
     om_of_td_lines |-> in.om_of_td_lines,
     distribution_losses |-> country_specs.GridLosses,
     connection_cost_per_hh |-> 125,
     base_to_peak_load_ratio |-> country_specs.BaseToPeak,
     system_life |-> 30,
     additional_mv_line_length |-> added_mv_length,
     grid_price |-> in.grid_price,
     grid |-> TRUE]

\* The keyword arguments shared by the mini-grid calls and by the stand-alone calls
minigrid_args(people_per_km2, scenario_value, in) ==
    [people |-> people_per_km2, scenario |-> scenario_value,
     om_of_td_lines |-> in.om_of_td_lines, distribution_losses |-> 50000,
     connection_cost_per_hh |-> 100]

standalone_args(people_per_km2, scenario_value) ==
    [people |-> people_per_km2, scenario |-> scenario_value,
     om_of_td_lines |-> 0, distribution_losses |-> 0,
     connection_cost_per_hh |-> 100, standalone |-> TRUE]

\* The keyword arguments of each generation technology
hydro_args(in) ==
    [capacity_factor |-> 500000, capital_cost |-> 5000,
     om_costs |-> in.om_renewable, base_to_peak_load_ratio |-> Mega,
     system_life |-> 30, mv_line_length |-> 5]

pv_args(in, irradiation) ==
    [capacity_factor |-> MulDiv(irradiation, Mega, HOURS_PER_YEAR),
     capital_cost |-> 4300, om_costs |-> in.om_renewable,
     base_to_peak_load_ratio |-> 900000, system_life |-> 20]

wind_args(in, capacity_factor) ==
    [capacity_factor |-> capacity_factor,
     capital_cost |-> 3000, om_costs |-> in.om_renewable,
     base_to_peak_load_ratio |-> 750000, system_life |-> 20]

diesel_args(in) ==
    [capacity_factor |-> 700000, capital_cost |-> 721, om_costs |-> in.om_diesel,
     base_to_peak_load_ratio |-> 500000, system_life |-> 15,
     efficiency |-> 330000, diesel_price |-> in.diesel_price, diesel |-> TRUE]

\* The generation arguments of technology tech
generation_args(in, tech) ==
    CASE tech = MG_HYDRO -> hydro_args(in)
      [] tech \in {MG_PV_LOW, MG_PV_HIGH, SA_PV_LOW, SA_PV_HIGH} ->
             pv_args(in, IF tech \in {MG_PV_LOW, SA_PV_LOW} THEN 1750 ELSE 2250)
      [] tech \in {MG_WIND_LOW, MG_WIND_MID, MG_WIND_HIGH} ->
             wind_args(in, IF tech = MG_WIND_LOW THEN 200000
                           ELSE IF tech = MG_WIND_MID THEN 300000 ELSE 400000)
      [] tech \in {MG_DIESEL, SA_DIESEL} -> diesel_args(in)

\* The keyword arguments of the calc_lcoe call of each off-grid technology.
tech_call(people_per_km2, scenario_value, in, tech) ==
    generation_args(in, tech) @@
    (IF tech \in {SA_DIESEL, SA_PV_LOW, SA_PV_HIGH}
     THEN standalone_args(people_per_km2, scenario_value)
     ELSE minigrid_args(people_per_km2, scenario_value, in))

\* The calc_lcoe calls of get_lcoes in program order: the grid at each of
\* ELEC_DISTANCES, then each technology of techs
lcoe_calls(country_specs, people_per_km2, scenario_value, in) ==
    [n \in 1..(Len(ELEC_DISTANCES) + Len(techs)) |->
        IF n <= Len(ELEC_DISTANCES)
        THEN grid_call(country_specs, people_per_km2, scenario_value, in, ELEC_DISTANCES[n])
        ELSE tech_call(people_per_km2, scenario_value, in, techs[n - Len(ELEC_DISTANCES)])]

\* The results of the first n calls
RECURSIVE lcoe_results(_, _)
lcoe_results(calls, n) ==
    IF n = 0 THEN <<>> ELSE Append(lcoe_results(calls, n - 1), calc_lcoe(calls[n]))

\* The calls that raised
failed_calls(results) == {n \in DOMAIN results : results[n].raised # "none"}

\* The exception of the first call that raised, "none" if none did
first_raised(results, failed) ==
    IF failed = {} THEN "none"
    ELSE results[CHOOSE n \in failed : \A m \in failed : n <= m].raised

tech_at(t) == CHOOSE n \in DOMAIN techs : techs[n] = t

\* The dictionary get_lcoes returns: the LCOE of each technology pathway, a
\* list along ELEC_DISTANCES under GRID; with the first exception raised by a
\* calc_lcoe call, if any, and whether every value is finite.
lcoes_dict(results) ==
    [raised |-> first_raised(results, failed_calls(results)),
     finite |-> \A n \in DOMAIN results : results[n].finite,
     lcoes |-> [k \in {GRID} \cup TechSet |->
                  IF k = GRID THEN [i \in DOMAIN ELEC_DISTANCES |-> results[i].lcoe]
                  ELSE results[Len(ELEC_DISTANCES) + tech_at(k)].lcoe]]

get_lcoes(country_specs, people_per_km2, scenario_value, calc_cap_only) ==
    lcoes_dict(lcoe_results(lcoe_calls(country_specs, people_per_km2, scenario_value,
                                       lcoe_inputs(country_specs, calc_cap_only)),
                            Len(ELEC_DISTANCES) + Len(techs)))

(***************************************************************************)
(* make_tables: its inputs                                                 *)
(***************************************************************************)
\* The number of density samples (400 in the program: from 10 to 4000 people
\* per km2).
NumPeople == 6

\* people_arr = [10 * x for x in range(1, 401)]
people_arr == [x \in 1..NumPeople |-> 10 * x]

\* The default of num_people_for_grid: 1e9
NotViable == 10^9

\* The country rows a specs file may hold, without the country name: valid
\* ones and ones with a ratio out of its range (BaseToPeak 0 or 1.5, GridLosses 1).
SpecRows ==
    { [GridPrice |-> 50000, GridLosses |-> 80000, BaseToPeak |-> 800000, DieselPriceLow |-> 1000000],
      [GridPrice |-> 150000, GridLosses |-> 80000, BaseToPeak |-> 800000, DieselPriceLow |-> 1000000],
      [GridPrice |-> 50000, GridLosses |-> 80000, BaseToPeak |-> 800000, DieselPriceLow |-> 300000],
      [GridPrice |-> 0, GridLosses |-> 0, BaseToPeak |-> 1000000, DieselPriceLow |-> 0],
      [GridPrice |-> 50000, GridLosses |-> 80000, BaseToPeak |-> 0, DieselPriceLow |-> 1000000],
      [GridPrice |-> 50000, GridLosses |-> 80000, BaseToPeak |-> 1500000, DieselPriceLow |-> 1000000],
      [GridPrice |-> 50000, GridLosses |-> 1000000, BaseToPeak |-> 800000, DieselPriceLow |-> 1000000] }

\* One row per country.
CountryNames == <<"A", "B">>

\* The scenario values, in kWh/hh/year
Scenarios == {1, 3000}

\* Grid price >= 0, diesel price >= 0, loss ratio in [0, 1), base-to-peak ratio
\* in (0, 1].
ValidRow(country_specs) ==
    /\ country_specs.GridPrice >= 0
    /\ country_specs.DieselPriceLow >= 0
    /\ country_specs.GridLosses >= 0 /\ country_specs.GridLosses < Mega
    /\ country_specs.BaseToPeak > 0 /\ country_specs.BaseToPeak <= Mega

PeopleSet == {people_arr[i] : i \in DOMAIN people_arr}
DistanceSet == {ELEC_DISTANCES[i] : i \in DOMAIN ELEC_DISTANCES}

\* get_lcoes at every input of the model, calculated once
lcoes_table ==
    [r \in SpecRows, p \in PeopleSet, s \in Scenarios, calc_cap_only \in BOOLEAN |->
        get_lcoes(r, p, s, calc_cap_only)] @@ <<>>

\* The numeric columns of a row
RowValues(country_specs) ==
    [f \in {"GridPrice", "GridLosses", "BaseToPeak", "DieselPriceLow"} |-> country_specs[f]]

\* The call get_lcoes(country_specs, people, scenario, calc_cap_only) of make_tables
get_lcoes_of(country_specs, p, s, calc_cap_only) ==
    lcoes_table[RowValues(country_specs), p, s, calc_cap_only]

(***************************************************************************)
(* make_tables: its state                                                  *)
(***************************************************************************)
VARIABLES
    specs_xlsx,             \* the rows of the specs file
    scenario,               \* the scenario value
    pc,                     \* the position in make_tables
    exception,              \* the exception that ended make_tables, or "none"
    specs,                  \* the rows read from the specs file
    index,                  \* the sweep: position of the row in specs
    people,                 \* the sweep and the scan: position in people_arr
    country,                \* the scan: position of the country
    additional_mv_line_length, \* the scan: position in ELEC_DISTANCES
    grid_lcoes, grid_cap, tech_lcoes, tech_cap,   \* the panels
    num_people_for_grid,    \* the viability table
    pending,                \* the sweep iterations not completed yet
    assigned,               \* per panel cell, how many times it was assigned
    worker,                 \* the sweep split across workers: the range and the
                            \* position of each worker
    out_of_order,           \* whether an iteration completed before an earlier one
    fs,                     \* the paths that exist: created or written by the run,
                            \* or the output directory left by an earlier run
    io,                     \* the file operations, in order
    args,                   \* get_lcoes called on its own: its arguments
    returned                \* and what it returned, for each calc_cap_only

panels == <<grid_lcoes, grid_cap, tech_lcoes, tech_cap>>
position == <<index, people, country, additional_mv_line_length>>
inputs == <<specs_xlsx, scenario>>
calls == <<args, returned>>
vars == <<inputs, pc, exception, specs, position, panels, num_people_for_grid,
          pending, assigned, worker, out_of_order, fs, io, calls>>

Countries == {specs[i].Country : i \in DOMAIN specs}
PanelNames == {"grid_lcoes", "grid_cap", "tech_lcoes", "tech_cap"}
PanelKeys(name) == IF name \in {"grid_lcoes", "grid_cap"} THEN DistanceSet ELSE TechSet

\* np.zeros([len(specs), len(keys), len(people_arr)]) as a pd.Panel, indexed
\* panel[country][people][key]
ZeroPanel(names, keys) == [c \in names |-> [p \in PeopleSet |-> [k \in keys |-> 0]]]

\* The four panels before the sweep, none of their cells assigned, for the
\* countries of the rows sp
zero_tables(sp) ==
    LET names == {sp[i].Country : i \in DOMAIN sp}
    IN  [raised |-> "none",
         grid_lcoes |-> ZeroPanel(names, DistanceSet),
         grid_cap |-> ZeroPanel(names, DistanceSet),
         tech_lcoes |-> ZeroPanel(names, TechSet),
         tech_cap |-> ZeroPanel(names, TechSet),
         assigned |-> [n \in PanelNames |-> ZeroPanel(names, PanelKeys(n))]]

\* The four panels as they are
tables ==
    [raised |-> "none", grid_lcoes |-> grid_lcoes, grid_cap |-> grid_cap,
     tech_lcoes |-> tech_lcoes, tech_cap |-> tech_cap, assigned |-> assigned]

\* The specs files: a row of SpecRows for each country
SpecFiles ==
    { [i \in DOMAIN CountryNames |-> [Country |-> CountryNames[i]] @@ r[i]] :
        r \in [DOMAIN CountryNames -> SpecRows] }

\* The state of make_tables before anything ran
Idle ==
    /\ exception = "none"
    /\ specs = <<>>
    /\ index = 1 /\ people = 1 /\ country = 1 /\ additional_mv_line_length = 1
    /\ grid_lcoes = <<>> /\ grid_cap = <<>> /\ tech_lcoes = <<>> /\ tech_cap = <<>>
    /\ num_people_for_grid = <<>>
    /\ pending = {}
    /\ assigned = <<>>
    /\ worker = <<>>
    /\ out_of_order = FALSE
    /\ io = <<>>

\* make_tables(scenario, specs_xlsx) is called
Init ==
    /\ specs_xlsx \in SpecFiles
    /\ scenario \in Scenarios
    /\ pc = "makedirs"
    /\ Idle
    /\ fs \in {{}, {PathJoin(<<FF_LCOES, Str(scenario)>>)}}
    /\ args = <<>>
    /\ returned = <<>>

(***************************************************************************)
(* make_tables: the output directory, the specs and the sweep              *)
(***************************************************************************)
\* output_dir = os.path.join(FF_LCOES, str(scenario))
\* if not os.path.exists(output_dir): os.makedirs(output_dir)
MakeOutputDir ==
    /\ pc = "makedirs"
    /\ \E output_dir \in {PathJoin(<<FF_LCOES, Str(scenario)>>)} :
          IF output_dir \notin fs
          THEN /\ fs' = fs \cup {output_dir}
               /\ io' = io \o <<"exists", "makedirs">>
          ELSE /\ fs' = fs
               /\ io' = Append(io, "exists")
    /\ pc' = "read"
    /\ UNCHANGED <<calls, inputs, exception, specs, position, panels, num_people_for_grid,
                   pending, assigned, worker, out_of_order>>

\* specs = pd.read_excel(specs_xlsx)[...], and a pd.Panel of zeros for each of
\* the main results
ReadSpecs ==
    /\ pc = "read"
    /\ specs' = specs_xlsx
    /\ io' = Append(io, "read_excel")
    /\ \E t \in {zero_tables(specs_xlsx)} :
          /\ grid_lcoes' = t.grid_lcoes
          /\ grid_cap' = t.grid_cap
          /\ tech_lcoes' = t.tech_lcoes
          /\ tech_cap' = t.tech_cap
          /\ assigned' = t.assigned
    /\ pending' = (DOMAIN specs_xlsx) \X (DOMAIN people_arr)
    /\ index' = 1 /\ people' = 1
    /\ pc' = "sweep"
    /\ UNCHANGED <<calls, inputs, exception, country, additional_mv_line_length,
                   num_people_for_grid, worker, out_of_order, fs>>

\* The grid values laid along ELEC_DISTANCES from its far end
GridColumn_reversed(lcoes) ==
    [d \in DistanceSet |-> lcoes[GRID][Len(ELEC_DISTANCES) + 1 - (d \div 5)]]

\* The column panel[country_name][people] after  panel[country_name][people] = lcoes[GRID]
GridColumn(lcoes) == [d \in DistanceSet |-> lcoes[GRID][d \div 5]]

\* The column after  panel[country_name][people][t] = lcoes[t]  for each technology
TechColumn(lcoes) == [t \in TechSet |-> lcoes[t]]

\* The column assigned to the density p and to every density above it
store_upwards(t, name, country_name, p, column) ==
    [t EXCEPT ![name][country_name] =
                  [q \in DOMAIN @ |-> IF q >= p THEN column ELSE @[q]],
              !.assigned[name][country_name] =
                  [q \in DOMAIN @ |-> IF q >= p THEN [k \in DOMAIN @[q] |-> @[q][k] + 1]
                                      ELSE @[q]]]

\* panel[country_name][people] = column  on the panel called name, each cell
\* of the column assigned once more
store(t, name, country_name, p, column) ==
    [t EXCEPT ![name][country_name][p] = column,
              !.assigned[name][country_name][p] = [k \in DOMAIN @ |-> @[k] + 1]]

\* The result r of get_lcoes inserted into the panels of the grid and of the
\* technologies; nothing is inserted when get_lcoes raised.
insert(t, grid_panel, tech_panel, country_name, p, r) ==
    IF r.raised # "none" THEN [t EXCEPT !.raised = r.raised]
    ELSE store(store(t, grid_panel, country_name, p, GridColumn(r.lcoes)),
               tech_panel, country_name, p, TechColumn(r.lcoes))

\* First calculate the full LCOE values, and insert the results into the panels
insert_full(t, country_specs, p, s) ==
    insert(t, "grid_lcoes", "tech_lcoes", country_specs.Country, p,
           get_lcoes_of(country_specs, p, s, FALSE))

\* The capital costs inserted into the panels of the full costs
insert_cap_into_lcoes(t, country_specs, p, s) ==
    IF t.raised # "none" THEN t
    ELSE insert(t, "grid_lcoes", "tech_lcoes", country_specs.Country, p,
                get_lcoes_of(country_specs, p, s, TRUE))

\* Then calculate only the capital costs, and insert the values
insert_cap(t, country_specs, p, s) ==
    IF t.raised # "none" THEN t
    ELSE insert(t, "grid_cap", "tech_cap", country_specs.Country, p,
                get_lcoes_of(country_specs, p, s, TRUE))

\* The body of the sweep for the row country_specs and the density p
sweep_body(t, country_specs, p, s) ==
    insert_cap(insert_full(t, country_specs, p, s), country_specs, p, s)

\* The panels become those of t; an exception in t ends make_tables.
Become(t) ==
    /\ grid_lcoes' = t.grid_lcoes
    /\ grid_cap' = t.grid_cap
    /\ tech_lcoes' = t.tech_lcoes
    /\ tech_cap' = t.tech_cap
    /\ assigned' = t.assigned
    /\ exception' = t.raised

\* The sweep ends one iteration before the last one
Complete_before_last(iteration) ==
    /\ pending' = pending \ {iteration}
    /\ out_of_order' = out_of_order
    /\ pc' = IF Cardinality(pending') <= 1 THEN "save" ELSE "sweep"

\* The iteration <<i, j>> completes: the sweep ends after the last one.
Complete(iteration) ==
    /\ pending' = pending \ {iteration}
    /\ out_of_order' =
          (out_of_order \/
           \E earlier \in pending :
              \/ earlier[1] < iteration[1]
              \/ earlier[1] = iteration[1] /\ earlier[2] < iteration[2])
    /\ pc' = IF pending' = {} THEN "save" ELSE "sweep"

\* for index, country_specs in specs.iterrows(): for people in people_arr: ...
Sweep ==
    /\ pc = "sweep"
    /\ \E t \in {sweep_body(tables, specs[index], people_arr[people], scenario)} :
          /\ Become(t)
          /\ IF t.raised # "none"
             THEN pc' = "raised" /\ UNCHANGED <<pending, out_of_order, index, people>>
             ELSE /\ Complete(<<index, people>>)
                  /\ IF people < Len(people_arr)
                     THEN people' = people + 1 /\ index' = index
                     ELSE people' = 1 /\ index' = index + 1
    /\ UNCHANGED <<calls, inputs, specs, country, additional_mv_line_length,
                   num_people_for_grid, worker, fs, io>>

(***************************************************************************)
(* make_tables: saving the panels and the viability scan                   *)
(***************************************************************************)
\* The five files of a run with scenario x, and its output directory
OutputFiles(x) ==
    {FF_GRID_LCOES(x), FF_GRID_CAP(x), FF_TECH_LCOES(x), FF_TECH_CAP(x), FF_NUM_PEOPLE(x)}

OutputPaths(x) == OutputFiles(x) \cup {PathJoin(<<FF_LCOES, Str(x)>>)}

\* Save the panels to csv
SavePanels ==
    /\ pc = "save"
    /\ fs' = fs \cup {FF_GRID_LCOES(scenario), FF_GRID_CAP(scenario),
                      FF_TECH_LCOES(scenario), FF_TECH_CAP(scenario)}
    /\ io' = io \o <<"to_csv grid_lcoes", "to_csv grid_cap", "to_csv tech_lcoes",
                     "to_csv tech_cap">>
    /\ pc' = "init_scan"
    /\ UNCHANGED <<calls, inputs, exception, specs, position, panels, num_people_for_grid,
                   pending, assigned, worker, out_of_order>>

\* The dataframe is initialised with very high default values
InitNumPeople ==
    /\ pc = "init_scan"
    /\ num_people_for_grid' = [c \in Countries |-> [d \in DistanceSet |-> NotViable]]
    /\ country' = 1 /\ additional_mv_line_length' = 1 /\ people' = 1
    /\ pc' = "scan"
    /\ UNCHANGED <<calls, inputs, exception, specs, index, panels, pending, assigned,
                   worker, out_of_order, fs, io>>

\* The minimum without mg_hydro
min_lcoe_techs_without_hydro(lcoes) ==
    Min(Min(lcoes[MG_DIESEL], lcoes[MG_WIND_MID]),
        CeilDiv(lcoes[SA_PV_LOW] + lcoes[SA_PV_HIGH], 2))

\* min(lcoes[MG_DIESEL], lcoes[MG_WIND_MID], (lcoes[SA_PV_LOW] + lcoes[SA_PV_HIGH]) / 2,
\*     lcoes[MG_HYDRO]).  The mean is rounded up: an integer is below the mean of
\* two integers exactly when it is below that mean rounded up.
min_lcoe_techs(lcoes) ==
    Min(Min(lcoes[MG_DIESEL], lcoes[MG_WIND_MID]),
        Min(CeilDiv(lcoes[SA_PV_LOW] + lcoes[SA_PV_HIGH], 2), lcoes[MG_HYDRO]))

\* The comparison with mg_diesel alone
GridIsCheaper_than_diesel(grid_lcoe, lcoes) == grid_lcoe < lcoes[MG_DIESEL]

\* grid_lcoes[country][people][additional_mv_line_length] < min_lcoe_techs
GridIsCheaper(grid_lcoe, lcoes) == grid_lcoe < min_lcoe_techs(lcoes)

\* The scan without its break: every density is visited
ScanAdvance_without_break(break) ==
    IF people < Len(people_arr)
    THEN /\ people' = people + 1
         /\ UNCHANGED <<country, additional_mv_line_length, pc>>
    ELSE /\ people' = 1
         /\ IF additional_mv_line_length < Len(ELEC_DISTANCES)
            THEN /\ additional_mv_line_length' = additional_mv_line_length + 1
                 /\ UNCHANGED <<country, pc>>
            ELSE /\ additional_mv_line_length' = 1
                 /\ country' = country + 1
                 /\ pc' = IF country < Len(specs) THEN "scan" ELSE "save_num_people"

\* The positions the scan visits next: the next density, or after the last
\* density or a break, the first density of the next distance or country
ScanAdvance(break) ==
    IF ~break /\ people < Len(people_arr)
    THEN /\ people' = people + 1
         /\ UNCHANGED <<country, additional_mv_line_length, pc>>
    ELSE /\ people' = 1
         /\ IF additional_mv_line_length < Len(ELEC_DISTANCES)
            THEN /\ additional_mv_line_length' = additional_mv_line_length + 1
                 /\ UNCHANGED <<country, pc>>
            ELSE /\ additional_mv_line_length' = 1
                 /\ country' = country + 1
                 /\ pc' = IF country < Len(specs) THEN "scan" ELSE "save_num_people"

\* The scan reading the grid table from the far end of ELEC_DISTANCES
Scan_from_far_end ==
    /\ pc = "scan"
    /\ \E c \in {specs[country].Country} :
       \E d \in {ELEC_DISTANCES[additional_mv_line_length]} :
       \E p \in {people_arr[people]} :
       \E cheaper \in {GridIsCheaper(grid_lcoes[c][p][55 - d], tech_lcoes[c][p])} :
          /\ num_people_for_grid' =
                IF cheaper THEN [num_people_for_grid EXCEPT ![c][d] = p]
                ELSE num_people_for_grid
          /\ ScanAdvance(cheaper)
    /\ UNCHANGED <<calls, inputs, exception, specs, index, panels, pending, assigned,
                   worker, out_of_order, fs, io>>

\* Loop through every combination of variables and see at what point (number of
\* people) the grid becomes the most economical option.
Scan ==
    /\ pc = "scan"
    /\ \E c \in {specs[country].Country} :
       \E d \in {ELEC_DISTANCES[additional_mv_line_length]} :
       \E p \in {people_arr[people]} :
       \E cheaper \in {GridIsCheaper(grid_lcoes[c][p][d], tech_lcoes[c][p])} :
          /\ num_people_for_grid' =
                IF cheaper THEN [num_people_for_grid EXCEPT ![c][d] = p]
                ELSE num_people_for_grid
          /\ ScanAdvance(cheaper)
    /\ UNCHANGED <<calls, inputs, exception, specs, index, panels, pending, assigned,
                   worker, out_of_order, fs, io>>

\* num_people_for_grid.to_csv(FF_NUM_PEOPLE(scenario))
SaveNumPeople ==
    /\ pc = "save_num_people"
    /\ fs' = fs \cup {FF_NUM_PEOPLE(scenario)}
    /\ io' = Append(io, "to_csv num_people_for_grid")
    /\ pc' = "done"
    /\ UNCHANGED <<calls, inputs, exception, specs, position, panels, num_people_for_grid,
                   pending, assigned, worker, out_of_order>>

Next ==
    \/ MakeOutputDir
    \/ ReadSpecs
    \/ Sweep
    \/ SavePanels
    \/ InitNumPeople
    \/ Scan
    \/ SaveNumPeople

Spec == Init /\ [][Next]_vars

(***************************************************************************)
(* The sweep split across two workers that own disjoint index ranges of    *)
(* the iterations: the program's order is the split that gives one worker  *)
(* every iteration.                                                        *)
(***************************************************************************)
Workers == {1, 2}

\* The iteration at position k of the program's order: the row, then the density
iteration_at(k) == <<((k - 1) \div Len(people_arr)) + 1, ((k - 1) % Len(people_arr)) + 1>>

\* The panels after the first k iterations of the program's order on the rows sp
RECURSIVE sweep_result(_, _, _)
sweep_result(sp, s, k) ==
    IF k = 0 THEN zero_tables(sp)
    ELSE sweep_body(sweep_result(sp, s, k - 1), sp[iteration_at(k)[1]],
                    people_arr[iteration_at(k)[2]], s)

\* The iterations are shared out: worker 1 owns the first split of them, worker 2
\* the others
Share ==
    /\ pc = "sweep"
    /\ worker = <<>>
    /\ \E split \in 0..Cardinality(pending) :
          worker' = [w \in Workers |->
                       [next |-> IF w = 1 THEN 1 ELSE split + 1,
                        last |-> IF w = 1 THEN split ELSE Cardinality(pending),
                        full_inserted |-> FALSE]]
    /\ UNCHANGED <<calls, inputs, pc, exception, specs, position, panels, num_people_for_grid,
                   pending, assigned, out_of_order, fs, io>>

\* Worker w calculates the full LCOE values of its next iteration and inserts them
InsertFull(w) ==
    /\ pc = "sweep"
    /\ worker # <<>>
    /\ worker[w].next <= worker[w].last
    /\ ~worker[w].full_inserted
    /\ \E it \in {iteration_at(worker[w].next)} :
       \E t \in {insert_full(tables, specs[it[1]], people_arr[it[2]], scenario)} :
          /\ Become(t)
          /\ pc' = IF t.raised # "none" THEN "raised" ELSE "sweep"
    /\ worker' = [worker EXCEPT ![w].full_inserted = TRUE]
    /\ UNCHANGED <<calls, inputs, specs, position, num_people_for_grid, pending,
                   out_of_order, fs, io>>

\* Worker w calculates the capital costs of the same iteration, inserts them and
\* moves to its next iteration
InsertCap(w) ==
    /\ pc = "sweep"
    /\ worker # <<>>
    /\ worker[w].full_inserted
    /\ \E it \in {iteration_at(worker[w].next)} :
       \E t \in {insert_cap(tables, specs[it[1]], people_arr[it[2]], scenario)} :
          /\ Become(t)
          /\ IF t.raised # "none"
             THEN pc' = "raised" /\ UNCHANGED <<pending, out_of_order>>
             ELSE Complete(it)
    /\ worker' = [worker EXCEPT ![w].full_inserted = FALSE, ![w].next = @ + 1]
    /\ UNCHANGED <<calls, inputs, specs, position, num_people_for_grid, fs, io>>

\* make_tables up to the saved panels, its sweep run by the workers
WorkersNext ==
    \/ MakeOutputDir
    \/ ReadSpecs
    \/ Share
    \/ \E w \in Workers : InsertFull(w)
    \/ \E w \in Workers : InsertCap(w)
    \/ SavePanels

\* make_tables is called at the larger scenario value on a specs file whose two
\* rows differ
WorkersInit ==
    /\ Init
    /\ fs = {}
    /\ scenario = 3000
    /\ specs_xlsx[1].GridPrice # specs_xlsx[2].GridPrice \/ ValidRow(specs_xlsx[1]) # ValidRow(specs_xlsx[2])

WorkersSpec == WorkersInit /\ [][WorkersNext]_vars

(***************************************************************************)
(* get_lcoes called on its own, over the whole range of densities          *)
(***************************************************************************)
\* Densities from the first to the last of the 400 samples of make_tables
Densities == {10, 20, 50, 100, 500, 1000, 2000, 4000}

\* Scenario values, in kWh/hh/year
LcoeScenarios == {1, 300, 3000}

\* The largest product of density and scenario value of a call: the costs and
\* the energy of a cell stay below 2^31 in the units of this module
MaxDemand == 1500000

LcoeArgs ==
    {a \in [country_specs : SpecRows, people : Densities, scenario : LcoeScenarios] :
        a.people * a.scenario <= MaxDemand}

LcoeInit ==
    /\ specs_xlsx = <<>>
    /\ scenario = 0
    /\ pc = "get_lcoes"
    /\ Idle
    /\ fs = {}
    /\ args \in LcoeArgs
    /\ returned = <<>>

\* lcoes = get_lcoes(country_specs, people, scenario, calc_cap_only)
GetLcoes(calc_cap_only) ==
    /\ pc = "get_lcoes"
    /\ calc_cap_only \notin DOMAIN returned
    /\ returned' = returned @@
                   (calc_cap_only :> get_lcoes(args.country_specs, args.people,
                                               args.scenario, calc_cap_only))
    /\ UNCHANGED <<args, inputs, pc, exception, specs, position, panels,
                   num_people_for_grid, pending, assigned, worker, out_of_order, fs, io>>

LcoeNext == \E calc_cap_only \in BOOLEAN : GetLcoes(calc_cap_only)

LcoeSpec == LcoeInit /\ [][LcoeNext]_vars

(***************************************************************************)
(* The viability scan                                                      *)
(***************************************************************************)
ScanEnded == pc \in {"save_num_people", "done"}

\* The grid LCOE of country c at density p and distance d is strictly below each
\* of mg_diesel, mg_wind0.3, (sa_pv1750 + sa_pv2250) / 2 and mg_hydro of the
\* technology table at the same country and density
BelowCurated(c, p, d) ==
    /\ grid_lcoes[c][p][d] < tech_lcoes[c][p][MG_DIESEL]
    /\ grid_lcoes[c][p][d] < tech_lcoes[c][p][MG_WIND_MID]
    /\ grid_lcoes[c][p][d] - tech_lcoes[c][p][SA_PV_LOW] <
           tech_lcoes[c][p][SA_PV_HIGH] - grid_lcoes[c][p][d]
    /\ grid_lcoes[c][p][d] < tech_lcoes[c][p][MG_HYDRO]

\* C1: after the viability scan, every cell of num_people_for_grid that is not
\* the sentinel 1e9 holds a density at which the full-cost grid LCOE at that
\* distance is strictly below min(mg_diesel, mg_wind0.3, (sa_pv1750 + sa_pv2250)/2,
\* mg_hydro) of the same country and density, and at no smaller sampled density
\* is the grid LCOE strictly below that minimum.
C1_FirstQualifyingDensity ==
    ScanEnded =>
        \A c \in Countries : \A d \in DistanceSet :
            num_people_for_grid[c][d] # NotViable =>
                /\ num_people_for_grid[c][d] \in PeopleSet
                /\ BelowCurated(c, num_people_for_grid[c][d], d)
                /\ \A q \in PeopleSet :
                      q < num_people_for_grid[c][d] => ~BelowCurated(c, q, d)

\* A finished run that recorded a density above the smallest sample
C1_Witness ==
    /\ pc = "done"
    /\ \E c \in Countries : \E d \in DistanceSet :
          /\ num_people_for_grid[c][d] \in PeopleSet
          /\ num_people_for_grid[c][d] > people_arr[1]

\* C2: at the end of make_tables a cell of num_people_for_grid holds the sentinel
\* 1e9 if and only if no sampled density has a grid LCOE at that distance strictly
\* below the curated minimum, and every other cell value is a sampled density.
C2_SentinelIffNoneQualifies ==
    ScanEnded =>
        \A c \in Countries : \A d \in DistanceSet :
            /\ (num_people_for_grid[c][d] = NotViable) <=>
                   (\A q \in PeopleSet : ~BelowCurated(c, q, d))
            /\ num_people_for_grid[c][d] \in PeopleSet \cup {NotViable}

\* A finished run with a sentinel cell and a recorded density in one country
C2_Witness ==
    /\ pc = "done"
    /\ \E c \in Countries : \E d1, d2 \in DistanceSet :
          /\ num_people_for_grid[c][d1] = NotViable
          /\ num_people_for_grid[c][d2] \in PeopleSet

BothReturned == DOMAIN returned = BOOLEAN

\* The values of a returned dictionary: the 10 of the grid and the 10 technologies
LcoeValues(lcoes) ==
    {lcoes[GRID][i] : i \in DOMAIN ELEC_DISTANCES} \cup {lcoes[t] : t \in TechSet}

\* C4: for a valid country row, each value get_lcoes returns with
\* calc_cap_only=True is less than or equal to the corresponding value with
\* calc_cap_only=False, at each of the 10 distances of the grid and for each of
\* the 10 off-grid technologies.
C4_CapitalOnlyAtMostFull ==
    (BothReturned /\ ValidRow(args.country_specs)) =>
        /\ \A i \in DOMAIN ELEC_DISTANCES :
              returned[TRUE].lcoes[GRID][i] <= returned[FALSE].lcoes[GRID][i]
        /\ \A t \in TechSet : returned[TRUE].lcoes[t] <= returned[FALSE].lcoes[t]

\* Both calls returned for a valid row at the largest density, and the capital
\* costs alone are strictly below the full costs of the grid and of a technology
C4_Witness ==
    /\ BothReturned
    /\ ValidRow(args.country_specs)
    /\ args.people = 4000
    /\ returned[TRUE].lcoes[GRID][1] < returned[FALSE].lcoes[GRID][1]
    /\ returned[TRUE].lcoes[MG_DIESEL] < returned[FALSE].lcoes[MG_DIESEL]

\* C5: the 10 grid values get_lcoes returns are non-decreasing along
\* ELEC_DISTANCES, in full-cost mode and in capital-only mode.
C5_GridNonDecreasingInDistance ==
    \A calc_cap_only \in DOMAIN returned :
        returned[calc_cap_only].raised = "none" =>
            \A i, j \in DOMAIN ELEC_DISTANCES :
                i < j => returned[calc_cap_only].lcoes[GRID][i] <=
                         returned[calc_cap_only].lcoes[GRID][j]

\* Both calls returned, and the grid is strictly costlier at 50 than at 5 in
\* both modes
C5_Witness ==
    /\ BothReturned
    /\ \A calc_cap_only \in BOOLEAN :
          /\ returned[calc_cap_only].raised = "none"
          /\ returned[calc_cap_only].lcoes[GRID][1] <
                 returned[calc_cap_only].lcoes[GRID][Len(ELEC_DISTANCES)]

\* C6: for a valid country row, a sampled density and a positive scenario, no
\* calc_lcoe call of get_lcoes divides by zero or takes the square root of a
\* negative value, and every value returned is finite and non-negative, in both
\* modes.
C6_FiniteNonNegative ==
    ValidRow(args.country_specs) =>
        \A calc_cap_only \in DOMAIN returned :
            /\ returned[calc_cap_only].raised = "none"
            /\ returned[calc_cap_only].finite
            /\ \A v \in LcoeValues(returned[calc_cap_only].lcoes) : v >= 0

\* Both calls returned for a valid row at the smallest scenario value and the
\* largest density
C6_Witness ==
    /\ BothReturned
    /\ ValidRow(args.country_specs)
    /\ args.people = 4000 /\ args.scenario = 1
    /\ \A v \in LcoeValues(returned[FALSE].lcoes) : v > 0

(***************************************************************************)
(* The result tables and the sweep                                         *)
(***************************************************************************)
SweepEnded == pc \in {"save", "init_scan", "scan", "save_num_people", "done"}

\* How many times the cells of country c were assigned, over the four result
\* tables, the densities and the distances or technologies
AssignedCounts(c) ==
    UNION {{assigned[n][c][p][k] : p \in PeopleSet, k \in PanelKeys(n)} : n \in PanelNames}

\* C7: each cell of grid_lcoes, grid_cap, tech_lcoes and tech_cap is assigned
\* exactly once by the sweep (never twice during it, once when it has ended), and
\* no cell of the four tables is modified after the sweep ends.
C7_AssignedOnceThenFixed ==
    /\ [](\A c \in Countries : AssignedCounts(c) \subseteq {0, 1})
    /\ [](SweepEnded => \A c \in Countries : AssignedCounts(c) = {1})
    /\ [][SweepEnded => UNCHANGED <<panels, assigned>>]_vars

\* A finished run: the scan has read the tables that the sweep filled
C7_Witness ==
    /\ pc = "done"
    /\ Countries # {}
    /\ \A c \in Countries : AssignedCounts(c) = {1}
    /\ \E c \in Countries : \E d \in DistanceSet : num_people_for_grid[c][d] \in PeopleSet

\* C8: the iterations of the sweep run by two workers that own disjoint index
\* ranges, their steps interleaved in any way, never assign a cell twice, and
\* when the sweep has ended the four result tables hold what the sequential
\* country-then-density order yields.
C8_AnyInterleavingSameTables ==
    /\ \A c \in Countries : AssignedCounts(c) \subseteq {0, 1}
    /\ pc = "save" =>
          \E t \in {sweep_result(specs, scenario, Len(specs) * Len(people_arr))} :
             /\ grid_lcoes = t.grid_lcoes
             /\ grid_cap = t.grid_cap
             /\ tech_lcoes = t.tech_lcoes
             /\ tech_cap = t.tech_cap

\* The sweep has ended, both workers owned iterations, and an iteration
\* completed before an earlier one of the sequential order
C8_Witness ==
    /\ pc = "save"
    /\ out_of_order
    /\ \A w \in Workers : worker[w].last >= worker[w].next - 1 /\ worker[w].next > 1
    /\ worker[1].last >= 1 /\ worker[2].last > worker[1].last

(***************************************************************************)
(* The output paths                                                        *)
(***************************************************************************)
\* Scenario values of other runs
OtherScenarios == {1, 3, 30, 300, 301, 3000, 13000, 30000}

\* C9: the output paths of a run (its five files and its output directory) are
\* disjoint from the output paths of a run with a different scenario value, and
\* the five file paths of a run are pairwise distinct.
C9_ScenarioPathsDisjoint ==
    /\ fs \subseteq OutputPaths(scenario)
    /\ pc = "done" =>
          /\ fs = OutputPaths(scenario)
          /\ Cardinality(OutputFiles(scenario)) = 5
    /\ \A x \in OtherScenarios \ {scenario} : OutputPaths(x) \cap OutputPaths(scenario) = {}

\* A finished run that wrote its five files and made its directory
C9_Witness ==
    /\ pc = "done"
    /\ Cardinality(fs) = 6
    /\ FF_NUM_PEOPLE(scenario) \in fs

\* C10 as stated: when a country row carries a base-to-peak ratio outside (0, 1]
\* or a loss ratio outside [0, 1), make_tables stores no computed LCOE value for
\* that row in a result table and writes none of the five output files.
C10_InvalidRowFailsFast ==
    \A i \in DOMAIN specs :
        ~ValidRow(specs[i]) =>
            /\ fs \cap OutputFiles(scenario) = {}
            /\ AssignedCounts(specs[i].Country) = {0}

(***************************************************************************)
(* What the sweep leaves in the result tables                              *)
(***************************************************************************)
\* The cells of the row country_specs at density p in a grid table and in a
\* technology table are the values of the dictionary lcoes
HoldsLcoes(grid_panel, tech_panel, country_specs, p, lcoes) ==
    /\ \A i \in DOMAIN ELEC_DISTANCES :
          grid_panel[country_specs.Country][p][ELEC_DISTANCES[i]] = lcoes[GRID][i]
    /\ \A t \in TechSet : tech_panel[country_specs.Country][p][t] = lcoes[t]

\* C11: when the sweep has ended, for every country and every sampled density,
\* grid_lcoes at the i-th distance of ELEC_DISTANCES is the i-th element of
\* get_lcoes(c, p, scenario, False)[GRID] and tech_lcoes holds
\* get_lcoes(c, p, scenario, False)[t] for each of the ten technologies, while
\* grid_cap and tech_cap hold the values of get_lcoes(c, p, scenario, True).
C11_TablesHoldGetLcoes ==
    SweepEnded =>
        \A i \in DOMAIN specs : \A p \in PeopleSet :
            /\ HoldsLcoes(grid_lcoes, tech_lcoes, specs[i], p,
                          get_lcoes_of(specs[i], p, scenario, FALSE).lcoes)
            /\ HoldsLcoes(grid_cap, tech_cap, specs[i], p,
                          get_lcoes_of(specs[i], p, scenario, TRUE).lcoes)

\* The sweep has just ended for two countries whose rows differ, and in each
\* country the full costs differ from the capital costs, for the grid along the
\* distances and for a technology
C11_Witness ==
    /\ pc = "save"
    /\ RowValues(specs[1]) # RowValues(specs[2])
    /\ \A c \in Countries :
          /\ grid_lcoes[c][people_arr[1]][5] < grid_lcoes[c][people_arr[1]][50]
          /\ grid_cap[c][people_arr[1]][5] < grid_lcoes[c][people_arr[1]][5]
          /\ tech_cap[c][people_arr[1]][MG_DIESEL] < tech_lcoes[c][people_arr[1]][MG_DIESEL]

(***************************************************************************)
(* The file operations of a run                                            *)
(***************************************************************************)
\* The operations that write the four result tables, in the program's order
PanelWrites == <<"to_csv grid_lcoes", "to_csv grid_cap", "to_csv tech_lcoes", "to_csv tech_cap">>

\* The operations that change the file system
WriteOps == {"makedirs", "to_csv num_people_for_grid"} \cup {PanelWrites[k] : k \in DOMAIN PanelWrites}

\* The positions of the operation op in io
Positions(op) == {k \in DOMAIN io : io[k] = op}

\* The specs file is read exactly once and before the first get_lcoes call; the
\* sweep does no file operation; the result tables are written only after the
\* last iteration completed, and the viability table only after the scan
\* completed for every country and distance.
ReadThenSweepThenWrites ==
    /\ Cardinality(Positions("read_excel")) =
          (IF pc \in {"makedirs", "read"} THEN 0 ELSE 1)
    /\ pc \in {"makedirs", "read"} => assigned = <<>> /\ pending = {}
    /\ pc \in {"sweep", "raised"} =>
          /\ \A k \in DOMAIN io : io[k] \in {"exists", "makedirs", "read_excel"}
          /\ io[Len(io)] = "read_excel"
    /\ \A k \in DOMAIN PanelWrites :
          Positions(PanelWrites[k]) # {} =>
              /\ pending = {}
              /\ SweepEnded /\ pc # "save"
              /\ \A c \in Countries : AssignedCounts(c) = {1}
    /\ Positions("to_csv num_people_for_grid") # {} =>
          /\ pc = "done"
          /\ country = Len(specs) + 1
          /\ \A k \in DOMAIN PanelWrites :
                \E j \in Positions(PanelWrites[k]) : j < Len(io)
          /\ io[Len(io)] = "to_csv num_people_for_grid"

\* C12 as stated: all I/O is one read before the sweep and writes after it, and
\* no file-system write happens before the read of the specs file.
C12_NoWriteBeforeRead ==
    /\ ReadThenSweepThenWrites
    /\ \A k \in DOMAIN io :
          io[k] \in WriteOps => \E j \in Positions("read_excel") : j < k

\* C12: the specs file is read exactly once, before the first get_lcoes call;
\* the only file operations before that read are the test whether the output
\* directory exists and, when it does not, its creation; the sweep does no file
\* operation; the four result tables are written only after the last iteration
\* completed and the viability table only after the scan completed, and every
\* write of a file comes after the read.
C12_OnlyMakedirsBeforeRead ==
    /\ ReadThenSweepThenWrites
    /\ \A k \in DOMAIN io :
          io[k] \in WriteOps \ {"makedirs"} => \E j \in Positions("read_excel") : j < k
    /\ io # <<>> =>
          /\ io[1] = "exists"
          /\ Positions("exists") = {1}
          /\ Positions("makedirs") \subseteq {2}
          /\ Positions("read_excel") \subseteq {Cardinality(Positions("makedirs")) + 2}

\* A finished run that created its output directory before it read the specs
C12_Witness ==
    /\ pc = "done"
    /\ io = <<"exists", "makedirs", "read_excel">> \o PanelWrites \o
            <<"to_csv num_people_for_grid">>

(***************************************************************************)
(* The investment cost of a non-grid technology                            *)
(***************************************************************************)
\* The arguments of the calc_lcoe call that get_lcoes makes for technology t
\* when it calculates the capital costs only
CapitalCall(t) ==
    tech_call(args.people, args.scenario, lcoe_inputs(args.country_specs, TRUE), t)
        @@ calc_lcoe_defaults

\* Local MV line cost + LV line cost + per-household connection cost +
\* capacity-based capital cost, in USD; the LV length that is costed is
\* lv_share thousandths of the total LV length
InvestmentCost(a, l, n, lv_share) ==
    mv_line_cost * a.mv_line_length +
    MulDiv(lv_line_cost, MulDiv(n.total_lv_lines_length, lv_share, Kilo), Kilo) +
    l.households * a.connection_cost_per_hh +
    MulDiv(MulDiv(l.peak_load, Mega, a.capacity_factor), a.capital_cost, Kilo)

\* The LCOE when the investment cost is the only cost: the investment over the
\* discounted generation of the system life
InvestmentLcoe(a, l, n, lv_share) ==
    MulDiv(InvestmentCost(a, l, n, lv_share), Mega,
           MulDiv(l.generation_per_year, sum_discount[a.system_life], Mega))

InvestmentLcoeOfLoads(a, l, lv_share) ==
    InvestmentLcoe(a, l, calc_network(l.households, l.peak_load), lv_share)

\* The capital-only LCOE of the call a, the stand-alone technologies costed for
\* standalone_lv_share thousandths of the total LV length, the others for 750
CapitalLcoe(a, standalone_lv_share) ==
    InvestmentLcoeOfLoads(a, calc_loads(a),
                          IF a.standalone THEN standalone_lv_share ELSE 750)

\* C13 as stated: the investment cost of a non-grid technology is local MV line
\* cost + LV line cost + connection cost + peak load / capacity factor * capital
\* cost, the LV length reduced by 25% unless the technology is stand-alone, a
\* stand-alone technology being costed for the whole LV length.
C13_StandaloneFullLvLength ==
    TRUE \in DOMAIN returned =>
        \A t \in TechSet : returned[TRUE].lcoes[t] = CapitalLcoe(CapitalCall(t), 1000)

\* C13: the investment cost of a non-grid technology is local MV line cost + LV
\* line cost + connection cost + peak load / capacity factor * capital cost,
\* where the LV length that is costed is 75% of the total LV length for a
\* mini-grid technology and zero for a stand-alone technology.
C13_StandaloneNoLvLength ==
    TRUE \in DOMAIN returned =>
        \A t \in TechSet : returned[TRUE].lcoes[t] = CapitalLcoe(CapitalCall(t), 0)

\* get_lcoes returned the capital costs, and a stand-alone technology costs less
\* than it would with its LV lines, a mini-grid one more than without its MV line
C13_Witness ==
    /\ TRUE \in DOMAIN returned
    /\ returned[TRUE].raised = "none"
    /\ returned[TRUE].lcoes[SA_PV_LOW] < CapitalLcoe(CapitalCall(SA_PV_LOW), 1000)
    /\ returned[TRUE].lcoes[MG_HYDRO] >
           CapitalLcoe([CapitalCall(MG_HYDRO) EXCEPT !.mv_line_length = 0], 0)

(***************************************************************************)
(* The viability thresholds along the distances                            *)
(***************************************************************************)
\* C14: when the scan has ended, the thresholds of every country are
\* non-decreasing in distance: for two distances d1 < d2 of ELEC_DISTANCES,
\* num_people_for_grid[country][d1] <= num_people_for_grid[country][d2], the
\* sentinel 1e9 being larger than every sampled density.
C14_ThresholdsNonDecreasing ==
    ScanEnded =>
        \A c \in Countries : \A d1, d2 \in DistanceSet :
            d1 < d2 => num_people_for_grid[c][d1] <= num_people_for_grid[c][d2]

\* A finished run with a country whose threshold rises from one recorded density
\* to a larger one and then to the sentinel as the distance grows
C14_Witness ==
    /\ pc = "done"
    /\ \E c \in Countries : \E d1, d2, d3 \in DistanceSet :
          /\ d1 < d2 /\ d2 < d3
          /\ num_people_for_grid[c][d1] < num_people_for_grid[c][d2]
          /\ num_people_for_grid[c][d2] \in PeopleSet
          /\ num_people_for_grid[c][d3] = NotViable

====
